---- MODULE Spec2Model ----
(***************************************************************************)
(* A model of the Hijri date value types of src/HijriDate.py: HijriDate,   *)
(* iTimedelta and the idate() factory, driven by a session that calls      *)
(* their operations and records each call with its result.                 *)
(*                                                                         *)
(* Python values are records tagged with the class name in "kind".  A      *)
(* raised exception is the value the raising function evaluates to (a      *)
(* record whose kind is the exception class); every caller in the source   *)
(* either returns the callee's result directly or is modelled with an      *)
(* explicit propagation test, so the exception reaches the session as the  *)
(* call's result.  None is the empty sequence and a present optional       *)
(* argument v is <<v>>.                                                    *)
(*                                                                         *)
(* Python's // and % on integers floor; so do \div and % of Integers.      *)
(***************************************************************************)
EXTENDS Integers, Sequences, FiniteSets, TLC

VARIABLES date, call, res, prev,    \* the date session (DateSpec)
          df, mcall, mres,          \* the mapper session (MapperSpec)
          file, data, lcall, lres,  \* the loader session (LoaderSpec)
          invoked, computes

vars == <<date, call, res, prev>>
mvars == <<df, mcall, mres>>
lvars == <<file, data, lcall, lres, invoked, computes>>

-----------------------------------------------------------------------------
(* Bounds of the model. *)

\* Largest year the session passes to a constructor; the smallest is -1, so
\* that negative years, year zero and positive ordinals all occur.
MaxYear == 0

\* Durations passed to the arithmetic are -MaxDelta..MaxDelta and the two
\* range lengths idate() returns, with either sign.
MaxDelta == 2

(* Program constants. *)
DaysPerYear == 354
DaysPerMonth == 30
MonthsPerYear == 12

Years == -1..MaxYear
Months == 1..MonthsPerYear
Days == 1..DaysPerMonth

\* Arguments the session tries, valid and invalid.
MonthArgs == 0..(MonthsPerYear + 1)
DayArgs == 0..(DaysPerMonth + 1)
Deltas == (-MaxDelta..MaxDelta)
            \cup {DaysPerMonth, -DaysPerMonth, DaysPerYear, -DaysPerYear}

None == <<>>
Some(v) == <<v>>
IsNone(x) == x = <<>>
Val(x) == x[1]

-----------------------------------------------------------------------------
(* Values. *)

ValueError(msg) == [kind |-> "ValueError", msg |-> msg]
NotImplemented == [kind |-> "NotImplemented"]

IsDate(v) == v.kind = "HijriDate"
IsDelta(v) == v.kind = "iTimedelta"
IsError(v) == v.kind = "ValueError"

\* HijriDate.__init__ with the day test off by one (day <= 31).
HijriDateDay31(year, month, day) ==
  IF ~(1 <= month /\ month <= 12)
    THEN ValueError("Month must be between 1 and 12")
  ELSE IF ~(1 <= day /\ day <= 31)
    THEN ValueError("Day must be between 1 and 30")
  ELSE [kind |-> "HijriDate", year |-> year, month |-> month, day |-> day]

\* HijriDate.__init__
HijriDate(year, month, day) ==
  IF ~(1 <= month /\ month <= 12)
    THEN ValueError("Month must be between 1 and 12")
  ELSE IF ~(1 <= day /\ day <= 30)
    THEN ValueError("Day must be between 1 and 30")
  ELSE [kind |-> "HijriDate", year |-> year, month |-> month, day |-> day]

\* iTimedelta.__init__
iTimedelta(days) == [kind |-> "iTimedelta", days |-> days]

\* The valid dates of the bounded years: what the constructor accepts.
Dates == {HijriDate(y, m, d) : y \in Years, m \in Months, d \in Days}

\* Python's tuple comparison (year, month, day) < (year, month, day).
TupleLt(a, b) ==
  \/ a[1] < b[1]
  \/ a[1] = b[1] /\ a[2] < b[2]
  \/ a[1] = b[1] /\ a[2] = b[2] /\ a[3] < b[3]

\* HijriDate.__eq__, for another HijriDate (the session compares dates with
\* dates only, so the NotImplemented branch is never taken).
DateEq(self, other) ==
  <<self.year, self.month, self.day>> = <<other.year, other.month, other.day>>

\* HijriDate.__lt__, for another HijriDate.
DateLt(self, other) ==
  TupleLt(<<self.year, self.month, self.day>>,
          <<other.year, other.month, other.day>>)

\* HijriDate.__gt__ as functools.total_ordering derives it from __lt__:
\* not (self < other) and self != other.
DateGt(self, other) == ~DateLt(self, other) /\ ~DateEq(self, other)

\* _to_ordinal counting days from 1 instead of 0.
ToOrdinalDayFromOne(self) ==
  (self.year - 1) * 354 + (self.month - 1) * 30 + self.day

\* HijriDate._to_ordinal
ToOrdinal(self) ==
  (self.year - 1) * 354 + (self.month - 1) * 30 + (self.day - 1)

\* Division and remainder that truncate toward zero, as in C.
TruncDiv(a, b) == IF a >= 0 THEN a \div b ELSE -((-a) \div b)
TruncRem(a, b) == a - b * TruncDiv(a, b)

\* _from_ordinal with years of twelve months of thirty days.
FromOrdinalYearOf360(ordinal) ==
  LET year0 == (ordinal \div 360) + 1
      remaining == ordinal % 360
      month0 == (remaining \div 30) + 1
      day0 == (remaining % 30) + 1
  IN  HijriDate(year0, month0, day0)

\* _from_ordinal with truncating division and remainder.
FromOrdinalTruncating(ordinal) ==
  LET year0 == TruncDiv(ordinal, 354) + 1
      remaining == TruncRem(ordinal, 354)
      month0 == TruncDiv(remaining, 30) + 1
      day0 == TruncRem(remaining, 30) + 1
      year1 == IF month0 > 12 THEN year0 + 1 ELSE year0
      month1 == IF month0 > 12 THEN 1 ELSE month0
      month2 == IF day0 > 30 THEN month1 + 1 ELSE month1
      day2 == IF day0 > 30 THEN 1 ELSE day0
      year3 == IF day0 > 30 /\ month2 > 12 THEN year1 + 1 ELSE year1
      month3 == IF day0 > 30 /\ month2 > 12 THEN 1 ELSE month2
  IN  HijriDate(year3, month3, day2)

\* HijriDate._from_ordinal
FromOrdinal(ordinal) ==
  LET year0 == (ordinal \div 354) + 1
      remaining == ordinal % 354
      month0 == (remaining \div 30) + 1
      day0 == (remaining % 30) + 1
      \* if month > 12: year += 1; month = 1
      year1 == IF month0 > 12 THEN year0 + 1 ELSE year0
      month1 == IF month0 > 12 THEN 1 ELSE month0
      \* if day > 30: month += 1; day = 1; if month > 12: year += 1; month = 1
      month2 == IF day0 > 30 THEN month1 + 1 ELSE month1
      day2 == IF day0 > 30 THEN 1 ELSE day0
      year3 == IF day0 > 30 /\ month2 > 12 THEN year1 + 1 ELSE year1
      month3 == IF day0 > 30 /\ month2 > 12 THEN 1 ELSE month2
  IN  HijriDate(year3, month3, day2)

\* HijriDate._add_days
AddDays(self, days) == FromOrdinal(ToOrdinal(self) + days)

\* HijriDate.__add__
DateAdd(self, other) ==
  IF ~IsDelta(other) THEN NotImplemented
  ELSE AddDays(self, other.days)

\* iTimedelta.__neg__
DeltaNeg(self) == iTimedelta(-self.days)

\* __sub__ returning the number of days between two dates, without sign.
DateSubAbsolute(self, other) ==
  IF IsDelta(other) THEN AddDays(self, -other.days)
  ELSE IF IsDate(other)
    THEN LET days_diff == ToOrdinal(self) - ToOrdinal(other)
         IN  iTimedelta(IF days_diff < 0 THEN -days_diff ELSE days_diff)
  ELSE NotImplemented

\* HijriDate.__sub__
DateSub(self, other) ==
  IF IsDelta(other) THEN AddDays(self, -other.days)
  ELSE IF IsDate(other) THEN iTimedelta(ToOrdinal(self) - ToOrdinal(other))
  ELSE NotImplemented

\* idate() testing month before day: a day without a month is ignored.
idateMonthFirst(year, month, day) ==
  IF IsNone(month)
    THEN [kind |-> "tuple", start |-> HijriDate(year, 1, 1),
                            duration |-> iTimedelta(354)]
  ELSE IF IsNone(day)
    THEN LET start_date == HijriDate(year, Val(month), 1)
         IN  IF IsError(start_date) THEN start_date
             ELSE [kind |-> "tuple", start |-> start_date,
                                     duration |-> iTimedelta(30)]
  ELSE HijriDate(year, Val(month), Val(day))

\* idate()
idate(year, month, day) ==
  IF ~IsNone(day)
    THEN IF IsNone(month)
           THEN ValueError("Month must be specified when day is provided")
           ELSE HijriDate(year, Val(month), Val(day))
  ELSE IF ~IsNone(month)
    THEN LET start_date == HijriDate(year, Val(month), 1)
             duration == iTimedelta(30)
         IN  IF IsError(start_date) THEN start_date
             ELSE [kind |-> "tuple", start |-> start_date, duration |-> duration]
  ELSE LET start_date == HijriDate(year, 1, 1)
           duration == iTimedelta(354)
       IN  IF IsError(start_date) THEN start_date
           ELSE [kind |-> "tuple", start |-> start_date, duration |-> duration]

-----------------------------------------------------------------------------------------------------------------------------------------------------
(* The session: one expression at a time.  With no call pending (call =    *)
(* NoCall) it holds a date and makes any call; a call leaves its name,     *)
(* receiver, arguments and result in the state.  The result of             *)
(* date +/- duration can be the receiver of a further +/- duration, as in  *)
(* (d + a) - b; any other result is dropped (Discard) before the next      *)
(* call.                                                                   *)
(*   date  the HijriDate the session holds: the receiver of its calls      *)
(*   call  the last call: its name, receiver and arguments                 *)
(*   res   what the last call returned or raised                           *)
(*   prev  the call before, when the last call was applied to its result   *)
(* A date outside the bounded years (a sum or difference can be) ends the  *)
(* session.                                                                *)

NoSelf == [kind |-> "None"]
NoCall == [op |-> "none", self |-> NoSelf, args |-> <<>>]
Call(op, self, args) == [op |-> op, self |-> self, args |-> args]
Bool(b) == [kind |-> "bool", value |-> b]
IntVal(n) == [kind |-> "int", value |-> n]

\* The date the session holds after a call: the date returned, the start of
\* the range returned, or the one it held when the call returned no date.
Held(r) ==
  IF IsDate(r) THEN r
  ELSE IF r.kind = "tuple" THEN r.start
  ELSE date

OptArgs(S) == {None} \cup {Some(x) : x \in S}

\* The ordinals of the bounded years.
Ordinals == ToOrdinal(HijriDate(-1, 1, 1))..ToOrdinal(HijriDate(MaxYear, 12, 30))

\* A date +/- duration call.
IsShift(c) ==
  /\ c.op \in {"__add__", "__sub__"}
  /\ IsDelta(c.args[1])

Ready == call = NoCall

\* The last call was a date +/- duration that returned the date now held.
Chained == ~Ready /\ IsShift(call) /\ res = date

\* The session calls methods of dates of the bounded years only.
InYears == date.year \in Years

\* The mapper and loader sessions when another session runs.
MapperIdle == df = <<>> /\ mcall = NoCall /\ mres = NoSelf
LoaderIdle ==
  /\ file = NoSelf /\ data = NoSelf /\ lcall = NoCall /\ lres = NoSelf
  /\ invoked = 0 /\ computes = 0

DateInit ==
  /\ date \in Dates
  /\ call = NoCall
  /\ res = NoSelf
  /\ prev = NoCall
  /\ MapperIdle /\ LoaderIdle

\* HijriDate(year, month, day)
Construct ==
  /\ Ready /\ InYears
  /\ \E y \in Years, m \in MonthArgs, d \in DayArgs :
       /\ call' = Call("HijriDate", NoSelf, <<y, m, d>>)
       /\ res' = HijriDate(y, m, d)
  /\ date' = Held(res')
  /\ prev' = NoCall
  /\ UNCHANGED <<mvars, lvars>>

\* HijriDate._from_ordinal(n), for an ordinal of the bounded years or for the
\* ordinal date._to_ordinal() has just returned.
CallFromOrdinal ==
  /\ \/ /\ Ready /\ InYears
        /\ \E n \in Ordinals : call' = Call("_from_ordinal", NoSelf, <<n>>)
        /\ prev' = NoCall
     \/ /\ call.op = "_to_ordinal"
        /\ call' = Call("_from_ordinal", NoSelf, <<res.value>>)
        /\ prev' = call
  /\ res' = FromOrdinal(call'.args[1])
  /\ date' = Held(res')
  /\ UNCHANGED <<mvars, lvars>>

\* date._to_ordinal(), of the date held or of the date _from_ordinal has just
\* returned, as in HijriDate._from_ordinal(n)._to_ordinal().
CallToOrdinal ==
  /\ \/ Ready /\ InYears /\ prev' = NoCall
     \/ call.op = "_from_ordinal" /\ IsDate(res) /\ prev' = call
  /\ call' = Call("_to_ordinal", date, <<>>)
  /\ res' = IntVal(ToOrdinal(date))
  /\ UNCHANGED date
  /\ UNCHANGED <<mvars, lvars>>

\* date + iTimedelta(n), of the date held or of the date a first date +/-
\* duration has just returned, as in (date + a) + b.  Only the previous call is
\* remembered, so a longer chain visits the states of a chain of two.
Add ==
  /\ Ready \/ (Chained /\ prev = NoCall)
  /\ InYears
  /\ \E n \in Deltas :
       /\ call' = Call("__add__", date, <<iTimedelta(n)>>)
       /\ res' = DateAdd(date, iTimedelta(n))
  /\ date' = Held(res')
  /\ prev' = call
  /\ UNCHANGED <<mvars, lvars>>

\* date - iTimedelta(n), of the date held or of the date a first date +/-
\* duration has just returned.
SubDelta ==
  /\ Ready \/ (Chained /\ prev = NoCall)
  /\ InYears
  /\ \E n \in Deltas :
       /\ call' = Call("__sub__", date, <<iTimedelta(n)>>)
       /\ res' = DateSub(date, iTimedelta(n))
  /\ date' = Held(res')
  /\ prev' = call
  /\ UNCHANGED <<mvars, lvars>>

\* date - other
SubDate ==
  /\ Ready /\ InYears
  /\ \E other \in Dates :
       /\ call' = Call("__sub__", date, <<other>>)
       /\ res' = DateSub(date, other)
  /\ UNCHANGED date
  /\ prev' = NoCall
  /\ UNCHANGED <<mvars, lvars>>

\* date < other
Compare ==
  /\ Ready /\ InYears
  /\ \E other \in Dates :
       /\ call' = Call("__lt__", date, <<other>>)
       /\ res' = Bool(DateLt(date, other))
  /\ UNCHANGED date
  /\ prev' = NoCall
  /\ UNCHANGED <<mvars, lvars>>

\* idate(year, month, day)
CallIdate ==
  /\ Ready /\ InYears
  /\ \E y \in Years, m \in OptArgs(MonthArgs), d \in OptArgs(DayArgs) :
       /\ call' = Call("idate", NoSelf, <<y, m, d>>)
       /\ res' = idate(y, m, d)
  /\ date' = Held(res')
  /\ prev' = NoCall
  /\ UNCHANGED <<mvars, lvars>>

\* start + duration, of the range idate() has just returned.
AddRange ==
  /\ call.op = "idate" /\ res.kind = "tuple"
  /\ call' = Call("__add__", res.start, <<res.duration>>)
  /\ res' = DateAdd(res.start, res.duration)
  /\ date' = Held(res')
  /\ prev' = call
  /\ UNCHANGED <<mvars, lvars>>

\* The expression ends: its value is dropped, the date held stays.
Discard ==
  /\ ~Ready
  /\ call' = NoCall
  /\ res' = NoSelf
  /\ prev' = NoCall
  /\ UNCHANGED date
  /\ UNCHANGED <<mvars, lvars>>

DateNext ==
  \/ Construct
  \/ CallFromOrdinal
  \/ CallToOrdinal
  \/ Add
  \/ SubDelta
  \/ SubDate
  \/ Compare
  \/ CallIdate
  \/ AddRange
  \/ Discard

DateSpec == DateInit /\ [][DateNext]_<<vars, mvars, lvars>>

-----------------------------------------------------------------------------
(* Properties. *)

Self == call.self
Arg(i) == call.args[i]
ValidDate(v) ==
  /\ IsDate(v)
  /\ v.month \in 1..12
  /\ v.day \in 1..30

\* C1: round trip: for every valid date d,
\* HijriDate._from_ordinal(d._to_ordinal()) == d.
C1_RoundTrip ==
  (call.op = "_from_ordinal" /\ prev.op = "_to_ordinal") => res = prev.self

\* C2: order consistency: d1 < d2 under HijriDate.__lt__ if and only if
\* d1._to_ordinal() < d2._to_ordinal().
C2_OrderConsistency ==
  call.op = "__lt__" => (res.value <=> ToOrdinal(Self) < ToOrdinal(Arg(1)))

\* C3: year rollover: HijriDate(Y, 12, 30) + iTimedelta(1) == HijriDate(Y+1, 1, 1).
C3_YearRollover ==
  (/\ call.op = "__add__"
   /\ Arg(1).days = 1
   /\ Self.month = 12
   /\ Self.day = 30) => res = HijriDate(Self.year + 1, 1, 1)

\* C4: month rollover: for M < 12,
\* HijriDate(Y, M, 30) + iTimedelta(1) == HijriDate(Y, M+1, 1).
C4_MonthRollover ==
  (/\ call.op = "__add__"
   /\ Arg(1).days = 1
   /\ Self.month < 12
   /\ Self.day = 30) => res = HijriDate(Self.year, Self.month + 1, 1)

C4_Witness ==
  /\ call.op = "__add__"
  /\ Arg(1).days = 1
  /\ Self = HijriDate(0, 6, 30)
  /\ res = HijriDate(0, 7, 1)

\* C5: additive identity and inverse: d + iTimedelta(0) == d, and
\* (d + iTimedelta(n)) - iTimedelta(n) == d for every duration n.
C5_AddThenSubtract ==
  /\ (call.op = "__add__" /\ Arg(1).days = 0) => res = Self
  /\ (/\ call.op = "__sub__"
      /\ IsDelta(Arg(1))
      /\ prev.op = "__add__"
      /\ prev.args[1] = Arg(1)) => res = prev.self

\* C6: the arithmetic never fails and never produces an invalid date:
\* _from_ordinal(n), d + iTimedelta(k) and d - iTimedelta(k) return a date with
\* month in 1..12 and day in 1..30, for negative, zero and positive n and k.
C6_ArithmeticNeverInvalid ==
  (call.op = "_from_ordinal" \/ IsShift(call)) => ValidDate(res)

C6_Witness ==
  /\ call.op = "_from_ordinal"
  /\ Arg(1) = -1
  /\ res = HijriDate(0, 12, 24)

\* C7: construction validation: HijriDate(year, month, day) raises ValueError
\* exactly when month is outside 1..12 or day is outside 1..30; otherwise, for
\* any year, it succeeds and stores the three fields unchanged.
C7_ConstructionValidation ==
  call.op = "HijriDate" =>
    IF Arg(2) \in 1..12 /\ Arg(3) \in 1..30
      THEN /\ IsDate(res)
           /\ <<res.year, res.month, res.day>> = <<Arg(1), Arg(2), Arg(3)>>
      ELSE IsError(res)

C7_Witness ==
  /\ call.op = "HijriDate"
  /\ Arg(1) = -1 /\ Arg(2) = 12 /\ Arg(3) = 30
  /\ IsDate(res)
  /\ <<res.year, res.month, res.day>> = <<-1, 12, 30>>

\* C8: a duration moves the date in the direction of its sign: for n > 0,
\* d + iTimedelta(n) > d, d - iTimedelta(n) < d and d + iTimedelta(-n) < d.
C8_DirectionOfSign ==
  (IsShift(call) /\ IsDate(res)) =>
    /\ (call.op = "__add__" /\ Arg(1).days > 0) => DateGt(res, Self)
    /\ (call.op = "__sub__" /\ Arg(1).days > 0) => DateLt(res, Self)
    /\ (call.op = "__add__" /\ Arg(1).days < 0) => DateLt(res, Self)

\* C9: date minus date is the ordinal difference and is antisymmetric:
\* d1 - d2 == iTimedelta(d1._to_ordinal() - d2._to_ordinal()) and
\* d2 - d1 == -(d1 - d2).
C9_DateMinusDate ==
  (call.op = "__sub__" /\ IsDate(Arg(1))) =>
    /\ res = iTimedelta(ToOrdinal(Self) - ToOrdinal(Arg(1)))
    /\ DateSub(Arg(1), Self) = DeltaNeg(res)

C9_Witness ==
  /\ call.op = "__sub__"
  /\ Self = HijriDate(0, 6, 15)
  /\ Arg(1) = HijriDate(0, 6, 20)
  /\ res = iTimedelta(-5)

\* C10: factory dispatch: idate(year, month, day) returns the single date
\* HijriDate(year, month, day) (or its ValueError) when month and day are
\* present, (HijriDate(year, month, 1), iTimedelta(30)) when only day is absent,
\* (HijriDate(year, 1, 1), iTimedelta(354)) when both are absent, and raises
\* ValueError, returning nothing, when day is present and month is absent.
C10_FactoryDispatch ==
  call.op = "idate" =>
    LET year == Arg(1)
        month == Arg(2)
        day == Arg(3)
        Range(start, n) ==
          IF IsDate(start)
            THEN res = [kind |-> "tuple", start |-> start, duration |-> iTimedelta(n)]
            ELSE IsError(res)
    IN  IF ~IsNone(month) /\ ~IsNone(day)
          THEN res = HijriDate(year, Val(month), Val(day))
        ELSE IF ~IsNone(month)
          THEN Range(HijriDate(year, Val(month), 1), 30)
        ELSE IF IsNone(day)
          THEN Range(HijriDate(year, 1, 1), 354)
        ELSE IsError(res) /\ res.msg = "Month must be specified when day is provided"

C10_Witness ==
  /\ call.op = "idate"
  /\ Arg(1) = 0 /\ Arg(2) = Some(6) /\ Arg(3) = None
  /\ res = [kind |-> "tuple", start |-> HijriDate(0, 6, 1),
                              duration |-> iTimedelta(30)]

-----------------------------------------------------------------------------
(* HijriDateMapper of src/src/hijri_datetime/untitled5.py.                 *)
(*                                                                         *)
(* A DataFrame is the sequence of its rows; a row is a record of its       *)
(* columns and of "index", its index label.  The frames are those          *)
(* pd.DataFrame(<dict of columns>) builds, as HijriDateMapper.__init__     *)
(* does from sample_data: the index is the RangeIndex 0..n-1.  The rows    *)
(* are any rows, in any order, repeated or not: the mapper takes whatever  *)
(* table it is given.  The hijri_method column is carried through by       *)
(* every operation and is left out.  self.df[mask] is SelectSeq: the rows  *)
(* the mask keeps, in the frame's order, each with its index label.        *)

\* Largest number of rows of a table.
MaxRows == 3

\* The dates of each calendar the rows are made of, and the query components.
GDates == {<<2024, 1, 15>>, <<2024, 1, 16>>, <<2025, 2, 15>>}
HDates == {<<1445, 7, 4>>, <<1445, 7, 5>>, <<1446, 8, 4>>}
GYears == {2024, 2025}
GMonths == {1, 2}
GDays == {15, 16}
HYears == {1445, 1446}
HMonths == {7, 8}
HDays == {4, 5}

Row(i, g, h) ==
  [index |-> i, g_year |-> g[1], g_month |-> g[2], g_day |-> g[3],
                h_year |-> h[1], h_month |-> h[2], h_day |-> h[3]]

\* pd.DataFrame(columns): row i (from 0) has index label i.
DataFrame(rows) == [i \in 1..Len(rows) |-> Row(i - 1, rows[i][1], rows[i][2])]

Tables ==
  {DataFrame(rows) : rows \in UNION {[1..n -> GDates \X HDates] : n \in 0..MaxRows}}

IndexError == [kind |-> "IndexError"]
Str(v) == [kind |-> "str", value |-> v]
Tuple3(a, b, c) == [kind |-> "tuple", items |-> <<a, b, c>>]

\* HijriDateMapper.get_dtype
get_dtype(year, month, day) ==
  IF ~IsNone(year) /\ ~IsNone(month) /\ ~IsNone(day) THEN "date"
  ELSE IF ~IsNone(year) /\ ~IsNone(month) THEN "month_range"
  ELSE IF ~IsNone(year) THEN "year_range"
  ELSE "invalid"

\* result.index[0] and result.index[-1]; IndexError on an empty index.
IndexFirst(result) == IF Len(result) = 0 THEN IndexError ELSE result[1].index
\* Variant of IndexLast: reads result.index[0] where the code reads [-1].
IndexLastIsFirst(result) == IF Len(result) = 0 THEN IndexError ELSE result[1].index
IndexLast(result) == IF Len(result) = 0 THEN IndexError ELSE result[Len(result)].index

\* Variant of to_hijri: the span counts both ends.
to_hijriSpanInclusive(frame, year, month, day) ==
  LET dtype == get_dtype(year, month, day)
      KeepDate(r) == r.g_year = Val(year) /\ r.g_month = Val(month) /\ r.g_day = Val(day)
      KeepMonth(r) == r.g_year = Val(year) /\ r.g_month = Val(month)
      KeepYear(r) == r.g_year = Val(year)
      result == IF dtype = "date" THEN SelectSeq(frame, KeepDate)
                ELSE IF dtype = "month_range" THEN SelectSeq(frame, KeepMonth)
                ELSE IF dtype = "year_range" THEN SelectSeq(frame, KeepYear)
                ELSE <<>>
  IN  IF Len(result) = 0
        THEN Tuple3(result, None, 0)
        ELSE LET first_index == IndexFirst(result)
                 last_index == IndexLast(result)
             IN  Tuple3(result, Some(first_index), last_index - first_index + 1)

\* Variant of to_hijri: the mask of a full date leaves the day out.
to_hijriDateIgnoresDay(frame, year, month, day) ==
  LET dtype == get_dtype(year, month, day)
      KeepDate(r) == r.g_year = Val(year) /\ r.g_month = Val(month)
      KeepMonth(r) == r.g_year = Val(year) /\ r.g_month = Val(month)
      KeepYear(r) == r.g_year = Val(year)
      result == IF dtype = "date" THEN SelectSeq(frame, KeepDate)
                ELSE IF dtype = "month_range" THEN SelectSeq(frame, KeepMonth)
                ELSE IF dtype = "year_range" THEN SelectSeq(frame, KeepYear)
                ELSE <<>>
  IN  IF Len(result) = 0
        THEN Tuple3(result, None, 0)
        ELSE LET first_index == IndexFirst(result)
                 last_index == IndexLast(result)
             IN  Tuple3(result, Some(first_index), last_index - first_index)

\* HijriDateMapper.to_hijri
to_hijri(frame, year, month, day) ==
  LET dtype == get_dtype(year, month, day)
      KeepDate(r) == r.g_year = Val(year) /\ r.g_month = Val(month) /\ r.g_day = Val(day)
      KeepMonth(r) == r.g_year = Val(year) /\ r.g_month = Val(month)
      KeepYear(r) == r.g_year = Val(year)
      result == IF dtype = "date" THEN SelectSeq(frame, KeepDate)
                ELSE IF dtype = "month_range" THEN SelectSeq(frame, KeepMonth)
                ELSE IF dtype = "year_range" THEN SelectSeq(frame, KeepYear)
                ELSE <<>>
  IN  IF Len(result) = 0
        THEN Tuple3(result, None, 0)
        ELSE LET first_index == IndexFirst(result)
                 last_index == IndexLast(result)
             IN  Tuple3(result, Some(first_index), last_index - first_index)

\* Variant of to_greg: the mask of a month leaves the month out.
to_gregMonthIgnored(frame, year, month, day) ==
  LET dtype == get_dtype(year, month, day)
      KeepDate(r) == r.h_year = Val(year) /\ r.h_month = Val(month) /\ r.h_day = Val(day)
      KeepMonth(r) == r.h_year = Val(year)
      KeepYear(r) == r.h_year = Val(year)
      result == IF dtype = "date" THEN SelectSeq(frame, KeepDate)
                ELSE IF dtype = "month_range" THEN SelectSeq(frame, KeepMonth)
                ELSE IF dtype = "year_range" THEN SelectSeq(frame, KeepYear)
                ELSE <<>>
  IN  IF Len(result) = 0
        THEN Tuple3(result, None, 0)
        ELSE LET first_index == IndexFirst(result)
                 last_index == IndexLast(result)
             IN  Tuple3(result, Some(first_index), last_index - first_index)

\* Variant of to_greg: the masks read the Gregorian columns.
to_gregOnGregorian(frame, year, month, day) ==
  LET dtype == get_dtype(year, month, day)
      KeepDate(r) == r.g_year = Val(year) /\ r.g_month = Val(month) /\ r.g_day = Val(day)
      KeepMonth(r) == r.g_year = Val(year) /\ r.g_month = Val(month)
      KeepYear(r) == r.g_year = Val(year)
      result == IF dtype = "date" THEN SelectSeq(frame, KeepDate)
                ELSE IF dtype = "month_range" THEN SelectSeq(frame, KeepMonth)
                ELSE IF dtype = "year_range" THEN SelectSeq(frame, KeepYear)
                ELSE <<>>
  IN  IF Len(result) = 0
        THEN Tuple3(result, None, 0)
        ELSE LET first_index == IndexFirst(result)
                 last_index == IndexLast(result)
             IN  Tuple3(result, Some(first_index), last_index - first_index)

\* HijriDateMapper.to_greg
to_greg(frame, year, month, day) ==
  LET dtype == get_dtype(year, month, day)
      KeepDate(r) == r.h_year = Val(year) /\ r.h_month = Val(month) /\ r.h_day = Val(day)
      KeepMonth(r) == r.h_year = Val(year) /\ r.h_month = Val(month)
      KeepYear(r) == r.h_year = Val(year)
      result == IF dtype = "date" THEN SelectSeq(frame, KeepDate)
                ELSE IF dtype = "month_range" THEN SelectSeq(frame, KeepMonth)
                ELSE IF dtype = "year_range" THEN SelectSeq(frame, KeepYear)
                ELSE <<>>
  IN  IF Len(result) = 0
        THEN Tuple3(result, None, 0)
        ELSE LET first_index == IndexFirst(result)
                 last_index == IndexLast(result)
             IN  Tuple3(result, Some(first_index), last_index - first_index)

\* Variant of get_match_indexes: the count is the distance of the two ends.
get_match_indexesCountIsSpan(frame, year, month, day, date_type) ==
  LET dtype == get_dtype(year, month, day)
      year_col == IF date_type = "gregorian" THEN "g_year" ELSE "h_year"
      month_col == IF date_type = "gregorian" THEN "g_month" ELSE "h_month"
      day_col == IF date_type = "gregorian" THEN "g_day" ELSE "h_day"
      KeepDate(r) == r[year_col] = Val(year) /\ r[month_col] = Val(month)
                       /\ r[day_col] = Val(day)
      KeepMonth(r) == r[year_col] = Val(year) /\ r[month_col] = Val(month)
      KeepYear(r) == r[year_col] = Val(year)
      matching_indexes == IF dtype = "date" THEN SelectSeq(frame, KeepDate)
                          ELSE IF dtype = "month_range" THEN SelectSeq(frame, KeepMonth)
                          ELSE SelectSeq(frame, KeepYear)
  IN  IF dtype \notin {"date", "month_range", "year_range"}
        THEN Tuple3(None, None, 0)
      ELSE IF Len(matching_indexes) = 0
        THEN Tuple3(None, None, 0)
      ELSE Tuple3(Some(IndexFirst(matching_indexes)),
                  Some(IndexLast(matching_indexes)),
                  IndexLast(matching_indexes) - IndexFirst(matching_indexes))

\* HijriDateMapper.get_match_indexes
get_match_indexes(frame, year, month, day, date_type) ==
  LET dtype == get_dtype(year, month, day)
      year_col == IF date_type = "gregorian" THEN "g_year" ELSE "h_year"
      month_col == IF date_type = "gregorian" THEN "g_month" ELSE "h_month"
      day_col == IF date_type = "gregorian" THEN "g_day" ELSE "h_day"
      KeepDate(r) == r[year_col] = Val(year) /\ r[month_col] = Val(month)
                       /\ r[day_col] = Val(day)
      KeepMonth(r) == r[year_col] = Val(year) /\ r[month_col] = Val(month)
      KeepYear(r) == r[year_col] = Val(year)
      matching_indexes == IF dtype = "date" THEN SelectSeq(frame, KeepDate)
                          ELSE IF dtype = "month_range" THEN SelectSeq(frame, KeepMonth)
                          ELSE SelectSeq(frame, KeepYear)
  IN  IF dtype \notin {"date", "month_range", "year_range"}
        THEN Tuple3(None, None, 0)
      ELSE IF Len(matching_indexes) = 0
        THEN Tuple3(None, None, 0)
      ELSE Tuple3(Some(IndexFirst(matching_indexes)),
                  Some(IndexLast(matching_indexes)),
                  Len(matching_indexes))

-----------------------------------------------------------------------------
(* The mapper session: a mapper built on a table, then one query at a      *)
(* time.                                                                   *)
(*   df     the mapper's table (self.df)                                   *)
(*   mcall  the last call: its name and arguments                          *)
(*   mres   what it returned                                               *)

DateIdle == date = NoSelf /\ call = NoCall /\ res = NoSelf /\ prev = NoCall

MReady == mcall = NoCall

\* HijriDateMapper(data)
MapperInit ==
  /\ df \in Tables
  /\ mcall = NoCall
  /\ mres = NoSelf
  /\ DateIdle /\ LoaderIdle

\* mapper.get_dtype(year, month, day)
CallGetDtype ==
  /\ MReady
  /\ \E y \in OptArgs(GYears), m \in OptArgs(GMonths), d \in OptArgs(GDays) :
       /\ mcall' = Call("get_dtype", NoSelf, <<y, m, d>>)
       /\ mres' = Str(get_dtype(y, m, d))
  /\ UNCHANGED <<df, vars, lvars>>

\* Variant of CallToHijri: the mapper keeps the filtered frame as its table.
CallToHijriKeepsResult ==
  /\ MReady
  /\ \E y \in OptArgs(GYears), m \in OptArgs(GMonths), d \in OptArgs(GDays) :
       /\ mcall' = Call("to_hijri", NoSelf, <<y, m, d>>)
       /\ mres' = to_hijri(df, y, m, d)
  /\ df' = mres'.items[1]
  /\ UNCHANGED <<vars, lvars>>

\* mapper.to_hijri(year, month, day)
CallToHijri ==
  /\ MReady
  /\ \E y \in OptArgs(GYears), m \in OptArgs(GMonths), d \in OptArgs(GDays) :
       /\ mcall' = Call("to_hijri", NoSelf, <<y, m, d>>)
       /\ mres' = to_hijri(df, y, m, d)
  /\ UNCHANGED <<df, vars, lvars>>

\* mapper.to_greg(year, month, day)
CallToGreg ==
  /\ MReady
  /\ \E y \in OptArgs(HYears), m \in OptArgs(HMonths), d \in OptArgs(HDays) :
       /\ mcall' = Call("to_greg", NoSelf, <<y, m, d>>)
       /\ mres' = to_greg(df, y, m, d)
  /\ UNCHANGED <<df, vars, lvars>>

\* mapper.get_match_indexes(year, month, day, date_type)
CallGetMatchIndexes ==
  /\ MReady
  /\ \/ \E y \in OptArgs(GYears), m \in OptArgs(GMonths), d \in OptArgs(GDays) :
          /\ mcall' = Call("get_match_indexes", NoSelf, <<y, m, d, "gregorian">>)
          /\ mres' = get_match_indexes(df, y, m, d, "gregorian")
     \/ \E y \in OptArgs(HYears), m \in OptArgs(HMonths), d \in OptArgs(HDays) :
          /\ mcall' = Call("get_match_indexes", NoSelf, <<y, m, d, "hijri">>)
          /\ mres' = get_match_indexes(df, y, m, d, "hijri")
  /\ UNCHANGED <<df, vars, lvars>>

\* The caller is done with the result.
MapperReturn ==
  /\ ~MReady
  /\ mcall' = NoCall
  /\ mres' = NoSelf
  /\ UNCHANGED <<df, vars, lvars>>

MapperNext ==
  \/ CallGetDtype
  \/ CallToHijri
  \/ CallToGreg
  \/ CallGetMatchIndexes
  \/ MapperReturn

MapperSpec == MapperInit /\ [][MapperNext]_<<vars, mvars, lvars>>

-----------------------------------------------------------------------------
(* Properties of the mapper.                                               *)

MArg(i) == mcall.args[i]
IsQuery == mcall.op \in {"to_hijri", "to_greg"}
\* The calendar a call matches on.
Calendar ==
  IF mcall.op = "to_hijri" THEN "g"
  ELSE IF mcall.op = "to_greg" THEN "h"
  ELSE IF MArg(4) = "gregorian" THEN "g" ELSE "h"
DateOf(r, cal) ==
  IF cal = "g" THEN <<r.g_year, r.g_month, r.g_day>> ELSE <<r.h_year, r.h_month, r.h_day>>

\* The precision of a query as the specification classifies it.
classify(year, month, day) ==
  IF IsNone(year) THEN "Invalid"
  ELSE IF ~IsNone(month) /\ ~IsNone(day) THEN "Exact"
  ELSE IF ~IsNone(month) THEN "MonthRange"
  ELSE IF IsNone(day) THEN "YearRange"
  ELSE "Invalid"
Precision == classify(MArg(1), MArg(2), MArg(3))
PrecisionName(dtype) ==
  CASE dtype = "date" -> "Exact"
    [] dtype = "month_range" -> "MonthRange"
    [] dtype = "year_range" -> "YearRange"
    [] dtype = "invalid" -> "Invalid"

\* The places (from 1) of the rows of the table whose date in the call's
\* calendar has the components the call supplies.
Agrees(r) ==
  LET t == DateOf(r, Calendar)
  IN  /\ ~IsNone(MArg(1)) /\ t[1] = Val(MArg(1))
      /\ IsNone(MArg(2)) \/ t[2] = Val(MArg(2))
      /\ IsNone(MArg(3)) \/ t[3] = Val(MArg(3))
Wanted == {i \in 1..Len(df) : Agrees(df[i])}

\* The parts of what a query returned.
Result == mres.items[1]
FirstIndex == mres.items[2]
Span == mres.items[3]

\* C11: get_dtype returns the precision of the specification for every
\* combination of present and absent year, month and day: Exact iff all three
\* are present, MonthRange iff year and month only, YearRange iff year only,
\* Invalid otherwise.
C11_PrecisionClassification ==
  mcall.op = "get_dtype" => PrecisionName(mres.value) = Precision

\* C12: a to_hijri or to_greg query of precision Exact, MonthRange or YearRange
\* returns exactly the rows of the table that agree with the supplied
\* components: none missing, none extra, none twice, in ascending position.
C12_QueryMatching ==
  (IsQuery /\ Precision # "Invalid") =>
    /\ \A i \in Wanted : \E k \in 1..Len(Result) : Result[k] = df[i]
    /\ \A k \in 1..Len(Result) : \E i \in Wanted : Result[k] = df[i]
    /\ \A k, l \in 1..Len(Result) : k < l => Result[k].index < Result[l].index
C12_Witness ==
  /\ mcall.op = "to_greg" /\ Precision = "MonthRange"
  /\ Len(Result) = 2 /\ Len(df) = 3
  /\ ~Agrees(df[2])

\* The table is in ascending Gregorian order.
SortedByG(frame) ==
  \A i, j \in 1..Len(frame) : i < j => ~TupleLt(DateOf(frame[j], "g"), DateOf(frame[i], "g"))

Query == <<Val(MArg(1)), Val(MArg(2)), Val(MArg(3))>>
Rows(frame) == {frame[k] : k \in 1..Len(frame)}

\* C14 as claimed: an Exact query returns zero or one record in either
\* direction; when one, first and last position coincide, the span is 0 and the
\* record is the one whose date in the queried calendar is the query.
C14_ExactAtMostOne ==
  (IsQuery /\ Precision = "Exact") =>
    /\ Len(Result) <= 1
    /\ Len(Result) = 1 =>
         /\ FirstIndex = Some(Result[1].index) /\ Span = 0
         /\ DateOf(Result[1], Calendar) = Query

\* C14, amended: an Exact query returns exactly the records whose date in the
\* queried calendar is the query, as many as the table holds; when the table
\* holds at most one, it returns zero or one, and for one the first position is
\* the record's and the span is 0.
C14_ExactMatches ==
  (IsQuery /\ Precision = "Exact") =>
    /\ \A k \in 1..Len(Result) : DateOf(Result[k], Calendar) = Query
    /\ Len(Result) = Cardinality(Wanted)
    /\ Cardinality(Wanted) <= 1 =>
         /\ Len(Result) <= 1
         /\ Len(Result) = 1 => FirstIndex = Some(Result[1].index) /\ Span = 0
C14_Witness ==
  /\ mcall.op = "to_greg" /\ Precision = "Exact"
  /\ Len(df) = 3 /\ Len(Result) = 1
  /\ FirstIndex = Some(2) /\ Span = 0
  /\ DateOf(df[1], "h") # Query /\ DateOf(df[2], "h") # Query

\* C15: to_hijri, to_greg and get_match_indexes return for every table and
\* every (year, month, day) and never raise; when the precision is Invalid or no
\* record agrees, the result is empty: no rows, first (and last) position None,
\* span 0, count 0.
C15_NoMatchIsValue ==
  mcall.op \in {"to_hijri", "to_greg", "get_match_indexes"} =>
    /\ mres.kind = "tuple"
    /\ (Precision = "Invalid" \/ Wanted = {}) =>
         IF IsQuery
           THEN Len(Result) = 0 /\ FirstIndex = None /\ Span = 0
           ELSE mres.items = <<None, None, 0>>

\* The places (from 1) of the rows of the table a query returned.
MatchedAt == {i \in 1..Len(df) : df[i] \in Rows(Result)}
First(S) == CHOOSE i \in S : \A j \in S : i <= j
Last(S) == CHOOSE i \in S : \A j \in S : j <= i

\* C16: for every query with a non-empty result, the first position is that of
\* the first match, first position plus span is that of the last match, the
\* span is not negative, and the count is the number of matched records.
C16_QueryResultInvariant ==
  (IsQuery /\ Len(Result) > 0) =>
    /\ FirstIndex = Some(df[First(MatchedAt)].index)
    /\ Val(FirstIndex) + Span = df[Last(MatchedAt)].index
    /\ Span >= 0
    /\ Len(Result) = Cardinality(MatchedAt)
C16_Witness ==
  /\ IsQuery
  /\ Len(Result) = 2 /\ FirstIndex = Some(0) /\ Span = 2

\* The query get_match_indexes stands for: to_hijri for 'gregorian', to_greg
\* otherwise.
QueryOf ==
  IF MArg(4) = "gregorian" THEN to_hijri(df, MArg(1), MArg(2), MArg(3))
  ELSE to_greg(df, MArg(1), MArg(2), MArg(3))

\* C17: get_match_indexes returns (first, last, count) with first the
\* first_index of the corresponding to_hijri or to_greg call, last - first its
\* span and count the number of its rows, and (None, None, 0) exactly when that
\* call's result is empty.
C17_PositionsOnlyEquivalent ==
  mcall.op = "get_match_indexes" =>
    LET first == mres.items[1]
        last == mres.items[2]
        count == mres.items[3]
        rows == QueryOf.items[1]
    IN  /\ first = QueryOf.items[2]
        /\ count = Len(rows)
        /\ Len(rows) > 0 => Val(last) - Val(first) = QueryOf.items[3]
        /\ mres.items = <<None, None, 0>> <=> Len(rows) = 0
C17_Witness ==
  /\ mcall.op = "get_match_indexes" /\ MArg(4) = "hijri"
  /\ mres.items = <<Some(0), Some(2), 2>>

\* The Exact query of the other direction on a record's own date.
BackFrom(r) ==
  IF mcall.op = "to_hijri"
    THEN to_greg(df, Some(r.h_year), Some(r.h_month), Some(r.h_day)).items[1]
    ELSE to_hijri(df, Some(r.g_year), Some(r.g_month), Some(r.g_day)).items[1]

\* C18: for every record r of the table, the Exact query of either direction on
\* r's own date returns r, at r's position, and so does the Exact query of the
\* other direction on r's date in the other calendar; converting a date of the
\* table and converting back returns a result that contains the date.
C18_BidirectionalSymmetry ==
  (IsQuery /\ Precision = "Exact") =>
    \A r \in Rows(df) :
      DateOf(r, Calendar) = Query =>
        /\ r \in Rows(Result)
        /\ r \in Rows(BackFrom(r))
        /\ \E b \in Rows(BackFrom(r)) : DateOf(b, Calendar) = Query
C18_Witness ==
  /\ mcall.op = "to_hijri" /\ Precision = "Exact"
  /\ Len(df) = 3 /\ Len(Result) = 1 /\ FirstIndex = Some(1)
  /\ Len(BackFrom(Result[1])) = 1

-----------------------------------------------------------------------------
(* _load_mapping_data of data/utils/_load_mapping_data.py and DateLoader   *)
(* of data/date_loader.py.                                                 *)
(*                                                                         *)
(* The file at csv_path is one of: no file, a file that cannot be read, a  *)
(* file that is not an xz stream, an xz stream with no columns, one the    *)
(* CSV parser rejects, or a CSV table: its columns and its rows in file    *)
(* order.  An index label is the tuple of the values of its levels: <<k>>  *)
(* in the RangeIndex read_csv gives, <<g_year, g_month, g_day>> after      *)
(* set_index.                                                              *)

\* Largest number of rows of a CSV file.
MaxFileRows == 2

FileGDates == {<<2024, 2, 10>>, <<2025, 1, 5>>}
FileHDates == {<<1445, 7, 29>>, <<1446, 6, 5>>}
expected_columns == {"g_day", "g_month", "g_year", "h_day", "h_month", "h_year"}
ColumnSets ==
  { expected_columns \cup {"hijri_method"},
    expected_columns,
    (expected_columns \ {"g_day"}) \cup {"hijri_method"},
    (expected_columns \ {"h_year"}) \cup {"hijri_method"} }

CsvFile(columns, rows) == [kind |-> "csv", columns |-> columns, rows |-> rows]
Files ==
  {[kind |-> k] : k \in {"missing", "unreadable", "not_xz", "empty", "malformed"}}
    \cup {CsvFile(c, rows) : c \in ColumnSets,
             rows \in UNION {[1..n -> FileGDates \X FileHDates] : n \in 0..MaxFileRows}}

Frame(rows) == [kind |-> "DataFrame", rows |-> rows]
Raised(kind) == [kind |-> kind]
FileNotFoundError == [kind |-> "FileNotFoundError"]
PermissionError == [kind |-> "PermissionError"]
RuntimeError(e) == [kind |-> "RuntimeError", msg |-> "Failed to load calendar data", cause |-> e]

\* pd.read_csv(file_path, ...) on a CSV table: row i (from 0) has label <<i>>.
read_csv(f) ==
  [i \in 1..Len(f.rows) |->
     [index |-> <<i - 1>>,
      g_year |-> f.rows[i][1][1], g_month |-> f.rows[i][1][2], g_day |-> f.rows[i][1][3],
      h_year |-> f.rows[i][2][1], h_month |-> f.rows[i][2][2], h_day |-> f.rows[i][2][3]]]

\* Variant of sort_values: the rows stay in file order.
sort_valuesKeepsOrder(frame) == frame

\* df.sort_values(["g_year", "g_month", "g_day"]): ascending, rows of equal
\* keys in their former order, every row with its label.
sort_values(frame) ==
  LET n == Len(frame)
      key(i) == <<frame[i].g_year, frame[i].g_month, frame[i].g_day>>
      place(i) == Cardinality({j \in 1..n : \/ TupleLt(key(j), key(i))
                                            \/ key(j) = key(i) /\ j <= i})
  IN  [k \in 1..n |-> frame[CHOOSE i \in 1..n : place(i) = k]]

\* df.set_index(["g_year", "g_month", "g_day"]): the three columns become the
\* index and leave the columns.
set_index(frame) ==
  [k \in 1..Len(frame) |->
     [index |-> <<frame[k].g_year, frame[k].g_month, frame[k].g_day>>,
      h_year |-> frame[k].h_year, h_month |-> frame[k].h_month, h_day |-> frame[k].h_day]]

\* The body of the try statement: the frame it returns or the exception it
\* raises.
TryBody(f) ==
  IF f.kind = "not_xz" THEN Raised("LZMAError")
  ELSE IF f.kind = "empty" THEN Raised("EmptyDataError")
  ELSE IF f.kind = "malformed" THEN Raised("ParserError")
  ELSE IF ~(expected_columns \subseteq f.columns)
    THEN ValueError("Missing required columns")
  ELSE Frame(set_index(sort_values(read_csv(f))))

\* _load_mapping_data(csv_path), f the file at csv_path
load_mapping_data(f) ==
  IF f.kind = "missing" THEN FileNotFoundError
  ELSE IF f.kind = "unreadable" THEN PermissionError
  ELSE LET r == TryBody(f)
       IN  IF r.kind = "DataFrame" THEN r
           ELSE IF r.kind = "EmptyDataError" THEN ValueError("Calendar data file is empty")
           ELSE IF r.kind = "ParserError" THEN ValueError("Error parsing CSV file")
           ELSE RuntimeError(r)

-----------------------------------------------------------------------------
(* DateLoader.date_ranges.                                                 *)

\* years.min() and years.max(): NaN over no value.
NaN == [kind |-> "float", value |-> "nan"]
SeriesMin(S) == IF S = {} THEN NaN ELSE IntVal(CHOOSE x \in S : \A y \in S : x <= y)
SeriesMax(S) == IF S = {} THEN NaN ELSE IntVal(CHOOSE x \in S : \A y \in S : y <= x)

\* Variant of date_ranges: the minimum is read off the first row and the
\* maximum off the last.
date_rangesFirstLast(frame) ==
  LET n == Len(frame.rows)
  IN  [kind |-> "dict",
       gregorian |-> [min |-> IF n = 0 THEN NaN ELSE IntVal(frame.rows[1].index[1]),
                      max |-> IF n = 0 THEN NaN ELSE IntVal(frame.rows[n].index[1])],
       hijri |-> [min |-> IF n = 0 THEN NaN ELSE IntVal(frame.rows[1].h_year),
                  max |-> IF n = 0 THEN NaN ELSE IntVal(frame.rows[n].h_year)]]

\* The dictionary date_ranges builds from the loaded frame.
date_ranges(frame) ==
  LET years == {frame.rows[k].index[1] : k \in 1..Len(frame.rows)}
      h_year == {frame.rows[k].h_year : k \in 1..Len(frame.rows)}
  IN  [kind |-> "dict",
       gregorian |-> [min |-> SeriesMin(years), max |-> SeriesMax(years)],
       hijri |-> [min |-> SeriesMin(h_year), max |-> SeriesMax(h_year)]]

-----------------------------------------------------------------------------
(* The loader session: one DateLoader, the file on disk, one call at a     *)
(* time.                                                                   *)
(*   file      the file at the default path                                *)
(*   data      the loader's cache (self._data); NoSelf is None             *)
(*   lcall     the last call                                               *)
(*   lres      what it returned or raised                                  *)
(*   invoked   how often the last call ran _load_mapping_data              *)
(*   computes  how often date_ranges computed the minima and maxima over   *)
(*             the frame now in the cache                                  *)

\* Largest number of date_ranges computations followed over one frame.
MaxComputes == 2

LReady == lcall = NoCall

\* DateLoader()
LoaderInit ==
  /\ file \in Files
  /\ data = NoSelf
  /\ lcall = NoCall
  /\ lres = NoSelf
  /\ invoked = 0
  /\ computes = 0
  /\ DateIdle /\ MapperIdle

\* _load_mapping_data()
CallLoadMappingData ==
  /\ LReady
  /\ lcall' = Call("_load_mapping_data", NoSelf, <<>>)
  /\ lres' = load_mapping_data(file)
  /\ invoked' = 1
  /\ UNCHANGED <<file, data, computes, vars, mvars>>

\* Variant of LoadData: the file is read on every call.
LoadDataAlwaysReads ==
  /\ LReady
  /\ lcall' = Call("load_data", NoSelf, <<>>)
  /\ LET r == load_mapping_data(file)
     IN  /\ data' = IF r.kind = "DataFrame" THEN r ELSE data
         /\ lres' = r
         /\ invoked' = 1
         /\ computes' = IF r.kind = "DataFrame" THEN 0 ELSE computes
  /\ UNCHANGED <<file, vars, mvars>>

\* loader.load_data()
LoadData ==
  /\ LReady
  /\ lcall' = Call("load_data", NoSelf, <<>>)
  /\ IF data = NoSelf
       THEN LET r == load_mapping_data(file)
            IN  /\ data' = IF r.kind = "DataFrame" THEN r ELSE data
                /\ lres' = r
                /\ invoked' = 1
       ELSE data' = data /\ lres' = data /\ invoked' = 0
  /\ UNCHANGED <<file, computes, vars, mvars>>

\* loader.reload_data(): the cache is cleared, then load_data.
ReloadData ==
  /\ LReady
  /\ lcall' = Call("reload_data", NoSelf, <<>>)
  /\ LET r == load_mapping_data(file)
     IN  /\ data' = IF r.kind = "DataFrame" THEN r ELSE NoSelf
         /\ lres' = r
  /\ invoked' = 1
  /\ computes' = 0
  /\ UNCHANGED <<file, vars, mvars>>

\* loader.date_ranges(): load_data, then the minima and maxima.
DateRanges ==
  /\ LReady
  /\ computes < MaxComputes
  /\ lcall' = Call("date_ranges", NoSelf, <<>>)
  /\ IF data = NoSelf
       THEN LET r == load_mapping_data(file)
            IN  /\ invoked' = 1
                /\ IF r.kind = "DataFrame"
                     THEN data' = r /\ lres' = date_ranges(r) /\ computes' = 1
                     ELSE data' = data /\ lres' = r /\ computes' = computes
       ELSE /\ invoked' = 0
            /\ data' = data
            /\ lres' = date_ranges(data)
            /\ computes' = computes + 1
  /\ UNCHANGED <<file, vars, mvars>>

\* The caller is done with the result.
LoaderReturn ==
  /\ ~LReady
  /\ lcall' = NoCall
  /\ lres' = NoSelf
  /\ invoked' = 0
  /\ UNCHANGED <<file, data, computes, vars, mvars>>

\* Between two calls the file on disk is replaced.
FileChange ==
  /\ LReady
  /\ \E f \in Files : file' = f
  /\ UNCHANGED <<data, lcall, lres, invoked, computes, vars, mvars>>

LoaderNext ==
  \/ CallLoadMappingData
  \/ LoadData
  \/ ReloadData
  \/ DateRanges
  \/ LoaderReturn
  \/ FileChange

LoaderSpec == LoaderInit /\ [][LoaderNext]_<<vars, mvars, lvars>>

-----------------------------------------------------------------------------
(* Properties of the loader.                                               *)

\* The call read the file: every call but a load_data answered from the cache.
Loaded == lcall.op # "none" /\ lres.kind = "DataFrame"
ReadFile ==
  \/ lcall.op \in {"_load_mapping_data", "reload_data"}
  \/ lcall.op = "load_data" /\ lres.kind # "DataFrame"
\* The number of places of a sequence that hold x.
Count(seq, x) == Cardinality({k \in 1..Len(seq) : seq[k] = x})
\* The record a row of the file becomes: labelled by its Gregorian date.
Keyed(row) ==
  [index |-> row[1], h_year |-> row[2][1], h_month |-> row[2][2], h_day |-> row[2][3]]
Ascending(rows) ==
  \A k, l \in 1..Len(rows) : k < l => ~TupleLt(rows[l].index, rows[k].index)

C20_SchemaRejection ==
  (ReadFile /\ file.kind = "csv" /\ ~(expected_columns \subseteq file.columns)) =>
    lres = ValueError("Missing required columns")


\* The file holds a table of zero rows.
ZeroRows(f) == f.kind = "empty" \/ (f.kind = "csv" /\ Len(f.rows) = 0)

\* C21: loading a table of zero rows, whether or not its header carries the
\* required columns, fails with the ValueError 'file is empty' and returns no
\* empty index.
C21_EmptyDatasetRejection ==
  (lcall.op \in {"_load_mapping_data", "reload_data"} /\ ZeroRows(file)) =>
    lres = ValueError("Calendar data file is empty")

\* C22: once the cache holds a table, every load_data call, and the load_data
\* inside every date_ranges call, returns the cached object and does not run
\* _load_mapping_data, until reload_data; every reload_data call runs it
\* exactly once.
C22_LoadCaching ==
  [][ /\ (LoadData /\ data # NoSelf) => (lres' = data /\ data' = data /\ invoked' = 0)
      /\ (DateRanges /\ data # NoSelf) => (data' = data /\ invoked' = 0)
      /\ ReloadData => invoked' = 1 ]_<<vars, mvars, lvars>>
C22_Witness ==
  /\ lcall.op = "load_data" /\ invoked = 0
  /\ data.kind = "DataFrame" /\ lres = data
  /\ file.kind = "csv" /\ load_mapping_data(file) # data

\* C23: after a reload_data call, whether the load returns or raises, the
\* loader holds the previous snapshot or the newly loaded one, never a cleared
\* cache in their place.
C23_AtomicReload ==
  [][ReloadData => (data' = data \/ data' = load_mapping_data(file))]_<<vars, mvars, lvars>>

\* v is the least, the greatest, year of S.
IsMinOf(v, S) == v.kind = "int" /\ v.value \in S /\ \A y \in S : v.value <= y
IsMaxOf(v, S) == v.kind = "int" /\ v.value \in S /\ \A y \in S : y <= v.value
GYearsOf(frame) == {frame.rows[k].index[1] : k \in 1..Len(frame.rows)}
HYearsOf(frame) == {frame.rows[k].h_year : k \in 1..Len(frame.rows)}

\* C24 as claimed: the minima and maxima are computed once per load and cached;
\* over one loaded table they are not computed a second time.
C24_RangesComputedOnce == computes <= 1

\* C24, amended: every date_ranges call computes the minima and maxima anew
\* from the table in the cache, the one thing the loader caches, and returns
\* the least and greatest g_year and h_year of the table now loaded.
C24_RangesOfLoadedTable ==
  (lcall.op = "date_ranges" /\ lres.kind = "dict") =>
    /\ data.kind = "DataFrame"
    /\ computes >= 1
    /\ Len(data.rows) > 0 =>
         /\ IsMinOf(lres.gregorian.min, GYearsOf(data))
         /\ IsMaxOf(lres.gregorian.max, GYearsOf(data))
         /\ IsMinOf(lres.hijri.min, HYearsOf(data))
         /\ IsMaxOf(lres.hijri.max, HYearsOf(data))
C24_Witness ==
  /\ lcall.op = "date_ranges" /\ lres.kind = "dict"
  /\ computes = 2 /\ invoked = 0
  /\ Len(data.rows) = 2
  /\ data.rows[1].index[1] < data.rows[2].index[1]
  /\ data.rows[1].h_year > data.rows[2].h_year

-----------------------------------------------------------------------------
(* iTimedelta arithmetic with scalars: __mul__, __rmul__, __truediv__.     *)
(*                                                                         *)
(* A Python float is a binary floating-point number: a significand of 53   *)
(* bits times a power of two, every operation rounded to the nearest such  *)
(* number, ties to the even significand.  A Python int has no such limit.  *)
(* The model follows the same arithmetic with significands of MantissaBits *)
(* bits, and durations up to MaxDays reach past 2^MantissaBits as ints     *)
(* reach past 2^53.  A float is held as the fraction num/den in lowest     *)
(* terms, den a power of two.                                              *)

\* Bits of a float's significand.
MantissaBits == 4
\* Durations of the scalar arithmetic are -MaxDays..MaxDays.
MaxDays == 17
\* Integer scalars are -MaxScalar..MaxScalar; float scalars are the halves
\* among them.
MaxScalar == 3

Abs(x) == IF x < 0 THEN -x ELSE x
RECURSIVE Pow2(_)
Pow2(n) == IF n = 0 THEN 1 ELSE 2 * Pow2(n - 1)
RECURSIVE Gcd(_, _)
Gcd(a, b) == IF b = 0 THEN a ELSE Gcd(b, a % b)

\* The float of value n/d (d > 0), in lowest terms.
Float(n, d) ==
  LET g == Gcd(Abs(n), d)
  IN  [kind |-> "float", num |-> n \div g, den |-> d \div g]

\* Exponents of the floats the bounded arithmetic reaches.
Exponents == -10..6

\* The float nearest to n/d (d > 0): the result of every float operation.
RoundFloat(n, d) ==
  IF n = 0 THEN Float(0, 1)
  ELSE
    LET a == Abs(n)
        N(e) == IF e < 0 THEN a * Pow2(-e) ELSE a
        D(e) == IF e < 0 THEN d ELSE d * Pow2(e)
        e == CHOOSE x \in Exponents :
               /\ Pow2(MantissaBits - 1) * D(x) <= N(x)
               /\ N(x) < Pow2(MantissaBits) * D(x)
        f == N(e) \div D(e)
        r == N(e) % D(e)
        m == IF 2 * r < D(e) THEN f
             ELSE IF 2 * r > D(e) THEN f + 1
             ELSE IF f % 2 = 0 THEN f ELSE f + 1
        sign == IF n < 0 THEN -1 ELSE 1
    IN  IF e < 0 THEN Float(sign * m, Pow2(-e)) ELSE Float(sign * m * Pow2(e), 1)

\* float(n) of an int; x * y and x / y of floats; n / k of ints (rounded once).
ToFloat(n) == RoundFloat(n, 1)
FloatMul(x, y) == RoundFloat(x.num * y.num, x.den * y.den)
FloatDiv(x, y) ==
  RoundFloat((IF y.num < 0 THEN -1 ELSE 1) * x.num * y.den, x.den * Abs(y.num))
IntTrueDiv(n, k) == RoundFloat((IF k < 0 THEN -1 ELSE 1) * n, Abs(k))
\* int(x) of a float: toward zero.
IntOfFloat(x) == TruncDiv(x.num, x.den)

ZeroDivisionError(msg) == [kind |-> "ZeroDivisionError", msg |-> msg]

Durations == -MaxDays..MaxDays
Scalars ==
  {IntVal(k) : k \in -MaxScalar..MaxScalar}
    \cup {Float(n, 2) : n \in (-MaxScalar)..MaxScalar}

\* Variant of DeltaAdd: the sum of two durations has no sign.
DeltaAddAbsolute(self, other) ==
  IF IsDelta(other) THEN iTimedelta(Abs(self.days + other.days))
  ELSE IF IsDate(other) THEN DateAdd(other, self)
  ELSE NotImplemented

\* iTimedelta.__add__
DeltaAdd(self, other) ==
  IF IsDelta(other) THEN iTimedelta(self.days + other.days)
  ELSE IF IsDate(other) THEN DateAdd(other, self)
  ELSE NotImplemented

\* Variant of DeltaMul: a float product is floored.
DeltaMulFloors(self, other) ==
  IF other.kind = "int" THEN iTimedelta(self.days * other.value)
  ELSE IF other.kind = "float"
    THEN LET x == FloatMul(ToFloat(self.days), other)
         IN  iTimedelta(x.num \div x.den)
  ELSE NotImplemented

\* iTimedelta.__mul__
DeltaMul(self, other) ==
  IF other.kind = "int" THEN iTimedelta(self.days * other.value)
  ELSE IF other.kind = "float"
    THEN iTimedelta(IntOfFloat(FloatMul(ToFloat(self.days), other)))
  ELSE NotImplemented

\* iTimedelta.__rmul__
DeltaRMul(self, other) == DeltaMul(self, other)

\* Variant of DeltaTrueDiv: a duration divided by a duration is a duration.
DeltaTrueDivReturnsDelta(self, other) ==
  IF other.kind = "int"
    THEN IF other.value = 0 THEN ZeroDivisionError("division by zero")
         ELSE iTimedelta(IntOfFloat(IntTrueDiv(self.days, other.value)))
  ELSE IF other.kind = "float"
    THEN IF other.num = 0 THEN ZeroDivisionError("float division by zero")
         ELSE iTimedelta(IntOfFloat(FloatDiv(ToFloat(self.days), other)))
  ELSE IF IsDelta(other)
    THEN IF other.days = 0 THEN ZeroDivisionError("Cannot divide by zero timedelta")
         ELSE iTimedelta(IntOfFloat(IntTrueDiv(self.days, other.days)))
  ELSE NotImplemented

\* iTimedelta.__truediv__
DeltaTrueDiv(self, other) ==
  IF other.kind = "int"
    THEN IF other.value = 0 THEN ZeroDivisionError("division by zero")
         ELSE iTimedelta(IntOfFloat(IntTrueDiv(self.days, other.value)))
  ELSE IF other.kind = "float"
    THEN IF other.num = 0 THEN ZeroDivisionError("float division by zero")
         ELSE iTimedelta(IntOfFloat(FloatDiv(ToFloat(self.days), other)))
  ELSE IF IsDelta(other)
    THEN IF other.days = 0 THEN ZeroDivisionError("Cannot divide by zero timedelta")
         ELSE IntTrueDiv(self.days, other.days)
  ELSE NotImplemented

-----------------------------------------------------------------------------
(* The duration session: one operation on a duration at a time, recorded   *)
(* in call and res as the date session records its calls.                  *)

DeltaInit == DateIdle /\ MapperIdle /\ LoaderIdle

\* iTimedelta(a) + other
AddDelta ==
  /\ Ready
  /\ \E a \in Durations, other \in Scalars \cup {iTimedelta(b) : b \in Durations} :
       /\ call' = Call("__add__", iTimedelta(a), <<other>>)
       /\ res' = DeltaAdd(iTimedelta(a), other)
  /\ UNCHANGED <<date, prev, mvars, lvars>>

\* iTimedelta(a) * other
Mul ==
  /\ Ready
  /\ \E a \in Durations, other \in Scalars \cup {iTimedelta(b) : b \in Durations} :
       /\ call' = Call("__mul__", iTimedelta(a), <<other>>)
       /\ res' = DeltaMul(iTimedelta(a), other)
  /\ UNCHANGED <<date, prev, mvars, lvars>>

\* k * iTimedelta(a)
RMul ==
  /\ Ready
  /\ \E a \in Durations, k \in Scalars :
       /\ call' = Call("__rmul__", iTimedelta(a), <<k>>)
       /\ res' = DeltaRMul(iTimedelta(a), k)
  /\ UNCHANGED <<date, prev, mvars, lvars>>

\* iTimedelta(a) / other
TrueDiv ==
  /\ Ready
  /\ \E a \in Durations, other \in Scalars \cup {iTimedelta(b) : b \in Durations} :
       /\ call' = Call("__truediv__", iTimedelta(a), <<other>>)
       /\ res' = DeltaTrueDiv(iTimedelta(a), other)
  /\ UNCHANGED <<date, prev, mvars, lvars>>

DeltaNext ==
  \/ AddDelta
  \/ Mul
  \/ RMul
  \/ TrueDiv
  \/ Discard

DeltaSpec == DeltaInit /\ [][DeltaNext]_<<vars, mvars, lvars>>

-----------------------------------------------------------------------------
(* Properties of the duration arithmetic.                                  *)

IsScalar(v) == v.kind \in {"int", "float"}
\* A scalar as the fraction it is.
NumOf(k) == IF k.kind = "int" THEN k.value ELSE k.num
DenOf(k) == IF k.kind = "int" THEN 1 ELSE k.den

\* C25: a / iTimedelta(0) fails with ZeroDivisionError for every duration a,
\* zero included; for a divisor b other than zero, a / b is the ratio
\* a.days / b.days as a number (the float nearest to it), not an iTimedelta.
C25_ZeroDurationDivision ==
  (call.op = "__truediv__" /\ IsDelta(Arg(1))) =>
    IF Arg(1).days = 0
      THEN res.kind = "ZeroDivisionError"
      ELSE /\ res.kind = "float"
           /\ Abs(res.num * Arg(1).days - Self.days * res.den) * Pow2(MantissaBits)
                <= Abs(Self.days) * res.den
           /\ \A q \in Durations :
                (q * Arg(1).days = Self.days /\ Abs(q) <= Pow2(MantissaBits)) =>
                  res = Float(q, 1)
C25_Witness ==
  /\ call.op = "__truediv__" /\ Self = iTimedelta(0) /\ Arg(1) = iTimedelta(0)
  /\ res.kind = "ZeroDivisionError"

\* C26: (iTimedelta(a) * k).days is the exact product a*k truncated toward
\* zero; for k # 0, (iTimedelta(a) / k).days is the exact quotient a/k
\* truncated toward zero; k * iTimedelta(a) is iTimedelta(a) * k.
C26_ScalarTruncation ==
  (call.op \in {"__mul__", "__rmul__", "__truediv__"} /\ IsScalar(Arg(1))) =>
    LET a == Self.days
        n == NumOf(Arg(1))
        d == DenOf(Arg(1))
    IN  /\ call.op \in {"__mul__", "__rmul__"} => res = iTimedelta(TruncDiv(a * n, d))
        /\ (call.op = "__truediv__" /\ n # 0) =>
             res = iTimedelta(TruncDiv((IF n < 0 THEN -1 ELSE 1) * a * d, Abs(n)))

-----------------------------------------------------------------------------
(* Further properties of the date arithmetic and of the mapper.            *)

\* C27: every step of a sequence of to_hijri, to_greg and get_match_indexes
\* calls leaves the mapper's table as it was, rows, order and positions, and
\* the answer to a call is the one the table it started from gives.
C27_QueriesReadOnly ==
  [][ /\ df' = df
      /\ mcall'.op = "to_hijri" =>
           mres' = to_hijri(df, mcall'.args[1], mcall'.args[2], mcall'.args[3])
      /\ mcall'.op = "to_greg" =>
           mres' = to_greg(df, mcall'.args[1], mcall'.args[2], mcall'.args[3])
      /\ mcall'.op = "get_match_indexes" =>
           mres' = get_match_indexes(df, mcall'.args[1], mcall'.args[2],
                                     mcall'.args[3], mcall'.args[4])
    ]_<<vars, mvars, lvars>>
C27_Witness ==
  /\ mcall.op = "get_match_indexes" /\ MArg(4) = "gregorian"
  /\ Len(df) = 3
  /\ mres.items = <<Some(0), Some(2), 2>>

\* C28: HijriDate._from_ordinal(n)._to_ordinal() == n for every integer n,
\* negative, zero or positive.
C28_OrdinalInverse ==
  (call.op = "_to_ordinal" /\ prev.op = "_from_ordinal") => res.value = prev.args[1]
C28_Witness ==
  /\ call.op = "_to_ordinal" /\ prev.op = "_from_ordinal"
  /\ prev.args[1] = -355
  /\ Self = HijriDate(-1, 12, 24)
  /\ res.value = -355

\* C29: (d + iTimedelta(a)) + iTimedelta(b) == d + iTimedelta(a + b)
\* == d + (iTimedelta(a) + iTimedelta(b)) for every valid date d and integers
\* a and b.
C29_AdditionComposes ==
  (call.op = "__add__" /\ prev.op = "__add__") =>
    /\ res = DateAdd(prev.self, iTimedelta(prev.args[1].days + Arg(1).days))
    /\ res = DateAdd(prev.self, DeltaAdd(prev.args[1], Arg(1)))
C29_Witness ==
  /\ call.op = "__add__" /\ prev.op = "__add__"
  /\ prev.self = HijriDate(-1, 12, 28) /\ prev.args[1] = iTimedelta(2)
  /\ Arg(1) = iTimedelta(-30)
  /\ res = DateAdd(HijriDate(-1, 12, 28), iTimedelta(-28))

\* C30: with (start, dur) = idate(Y, M), start + dur is the start of the next
\* month's range: HijriDate(Y, M+1, 1) for M < 12 and HijriDate(Y+1, 1, 1) for
\* M = 12, which is also idate(Y)'s start plus its duration.
C30_MonthRangesAbut ==
  (call.op = "__add__" /\ prev.op = "idate") =>
    LET Y == prev.args[1]
        M == prev.args[2]
    IN  IF IsNone(M) THEN res = HijriDate(Y + 1, 1, 1)
        ELSE IF Val(M) < 12 THEN res = HijriDate(Y, Val(M) + 1, 1)
        ELSE res = HijriDate(Y + 1, 1, 1)

====
